---- MODULE Spec2Model ----
(***************************************************************************)
(* HomeServe Pro API: dispatch of the nearest technician to a booking,     *)
(* live tracking of the technician (update_technician_location) and the    *)
(* websocket push channel (ConnectionManager, websocket_tracking).         *)
(*                                                                         *)
(* Coordinates are integers in units of 1e-4 degree; distances are         *)
(* integers in metres; datetimes are integer ticks of the clock `now`.     *)
(***************************************************************************)
EXTENDS Integers, Sequences, FiniteSets, TLC

(* ------------------------------ bounds --------------------------------- *)
MaxTime == 2
MaxRecv == 2

(* --------------------------- program values ---------------------------- *)
\* Optional[float] = Form(None): the absent coordinate
None == 0 - 99999999
\* latitude or 28.6139 / longitude or 77.2090, in 1e-4 degree
DefaultLat == 286139
DefaultLon == 772090
\* if distance < 0.1, in metres
ArrivedMetres == 100
\* avg_speed_kmh = 30
avg_speed_kmh == 30
\* max(time_minutes, 5)
MinEta == 5
\* geopy: abs(latitude) > 90 raises ValueError; abs(longitude) > 180 wraps
MaxLat == 900000
MaxLon == 1800000

BookingIds == {"B1", "B2"}
TechIds == {1, 2}
NoTech == 0
WebSockets == {"ws1", "ws2"}
NoSocket == "none"

\* service categories with and without a seeded technician
Categories == {"plumber", "carpenter"}

\* requester positions offered to create_booking: the default location given
\* explicitly, or no position at all
CustomerCoords == {<<DefaultLat, DefaultLon>>, <<None, None>>}

\* positions a technician reports: 55 m north of the default location,
\* 3.3 km north of it
ReportCoords == {<<DefaultLat + 5, DefaultLon>>,
                 <<DefaultLat + 300, DefaultLon>>}

TerminalStatuses == {"completed", "cancelled"}

(* ------------------------- location_tracker.py ------------------------- *)
Abs(x) == IF x < 0 THEN 0 - x ELSE x

Max2(a, b) == IF a >= b THEN a ELSE b

RECURSIVE SqrtBetween(_, _, _)
\* largest r in lo..hi with r*r <= n
SqrtBetween(n, lo, hi) ==
    IF lo >= hi THEN lo
    ELSE LET mid == (lo + hi + 1) \div 2
         IN  IF mid * mid <= n THEN SqrtBetween(n, mid, hi)
             ELSE SqrtBetween(n, lo, mid - 1)

ISqrt(n) == SqrtBetween(n, 0, 46340)

\* geopy Point: a missing coordinate counts as 0.0
CoordOrZero(c) == IF c = None THEN 0 ELSE c

\* geopy Point: a longitude outside [-180, 180] is wrapped into it
WrapLon(lon) == IF Abs(lon) > MaxLon
                THEN ((lon + MaxLon) % (2 * MaxLon)) - MaxLon
                ELSE lon

\* geopy Point: a latitude outside [-90, 90] raises ValueError
RaisesValueError(lat1, lat2) ==
    \/ Abs(CoordOrZero(lat1)) > MaxLat
    \/ Abs(CoordOrZero(lat2)) > MaxLat

\* calculate_distance, in metres.  The geodesic is approximated on the local
\* tangent plane at the default location: 11 m per 1e-4 degree of latitude,
\* 10 m per 1e-4 degree of longitude; legs over 30 km are measured in whole
\* kilometres.
calculate_distance(lat1, lon1, lat2, lon2) ==
    LET dy == 11 * Abs(CoordOrZero(lat1) - CoordOrZero(lat2))
        dl == Abs(WrapLon(CoordOrZero(lon1)) - WrapLon(CoordOrZero(lon2)))
        dx == 10 * (IF dl > MaxLon THEN 2 * MaxLon - dl ELSE dl)
    IN  IF dy <= 30000 /\ dx <= 30000
        THEN ISqrt(dy * dy + dx * dx)
        ELSE 1000 * ISqrt((dy \div 1000) * (dy \div 1000)
                          + (dx \div 1000) * (dx \div 1000))

\* the distances up to 200 km, in whole metres, at which the double product
\* distance_km / 30 * 60 falls just short of the whole number 2 * distance_km
\* (61.5 / 30 * 60 = 122.99999999999999), so that int() cuts it to one less
TruncatedShort == {61500, 122500, 123000, 123500}

\* an estimate without the max(time_minutes, 5)
get_eta_NoFloor(metres) ==
    LET time_minutes == (metres * 60) \div (avg_speed_kmh * 1000)
    IN  IF metres \in TruncatedShort THEN time_minutes - 1 ELSE time_minutes

\* get_eta: int(distance_km / avg_speed_kmh * 60), floored at 5 minutes
get_eta(metres) ==
    LET whole == (metres * 60) \div (avg_speed_kmh * 1000)
        time_minutes == IF metres \in TruncatedShort THEN whole - 1
                        ELSE whole
    IN  Max2(time_minutes, MinEta)

\* round(distance, 2): kilometres to two decimals, in units of 10 m,
\* ties to even
Round2(metres) ==
    LET q == metres \div 10
        r == metres % 10
    IN  IF r > 5 \/ (r = 5 /\ q % 2 = 1) THEN q + 1 ELSE q

(* ------------------------------- state --------------------------------- *)
VARIABLES
    technicians,         \* table technicians: id -> row
    bookings,            \* table bookings: booking_id -> row, or NoRow
    tracking,            \* table technician_tracking: booking -> row, or NoRow
    now,                 \* datetime.now()
    last,                \* the request handled last and its response
    active_connections,  \* manager.active_connections: booking_id -> websocket
    pc,                  \* position of the websocket_tracking handler of a socket
    wsBooking,           \* booking_id path parameter of that handler
    sock,                \* state of the websocket: "new", "open", "closed"
    sending,             \* the send_json a handler is awaiting
    received             \* snapshots delivered to the client of the socket

vars == <<technicians, bookings, tracking, now, last, active_connections,
          pc, wsBooking, sock, sending, received>>

dbVars == <<technicians, bookings, tracking>>
hubVars == <<active_connections, pc, wsBooking, sock, sending, received>>

NoRow == [exists |-> FALSE]
NoSend == [active |-> FALSE]
NoRequest == [op |-> "none"]

\* rows of the technicians table: technician 1 at the column defaults
\* (models.py), technician 2 of the same category 3.3 km north of them
SeedTechnicians ==
    [t \in TechIds |->
        [service_category |-> "plumber",
         is_available |-> TRUE,
         current_latitude |-> IF t = 1 THEN DefaultLat ELSE DefaultLat + 300,
         current_longitude |-> DefaultLon,
         rating |-> IF t = 1 THEN 49 ELSE 48]]

TechnicianTables == {SeedTechnicians}

Init ==
    /\ technicians \in TechnicianTables
    /\ bookings = [b \in BookingIds |-> NoRow]
    /\ tracking = [b \in BookingIds |-> NoRow]
    /\ now = 0
    /\ last = NoRequest
    /\ active_connections = [b \in BookingIds |-> NoSocket]
    /\ pc = [w \in WebSockets |-> "idle"]
    /\ wsBooking = [w \in WebSockets |-> "B1"]
    /\ sock = [w \in WebSockets |-> "new"]
    /\ sending = [w \in WebSockets |-> NoSend]
    /\ received = [w \in WebSockets |-> <<>>]

(* ------------------------- app.py: dispatch ---------------------------- *)
\* all orders in which a query without ORDER BY may return the rows S
Orders(S) ==
    {o \in [1..Cardinality(S) -> S] :
        \A i, j \in 1..Cardinality(S) : i # j => o[i] # o[j]}

\* a query that forgets the availability filter
Candidates_AnyAvailability(techs, service_category) ==
    {t \in TechIds : techs[t].service_category = service_category}

\* the rows find_nearest_technician's query returns
Candidates(techs, service_category) ==
    {t \in TechIds : /\ techs[t].service_category = service_category
                     /\ techs[t].is_available}

RECURSIVE ScanNearest(_, _, _, _, _, _, _)
\* the for loop of find_nearest_technician from position i on;
\* nearest = NoTech stands for min_distance = float('inf')
ScanNearest(techs, order, i, lat, lon, nearest, min_distance) ==
    IF i > Len(order) THEN nearest
    ELSE LET tech == order[i]
             distance == calculate_distance(techs[tech].current_latitude,
                                            techs[tech].current_longitude,
                                            lat, lon)
         IN  IF nearest = NoTech \/ distance < min_distance
             THEN ScanNearest(techs, order, i + 1, lat, lon, tech, distance)
             ELSE ScanNearest(techs, order, i + 1, lat, lon, nearest,
                              min_distance)

\* a dispatch that takes the first row without comparing distances
find_nearest_technician_FirstRow(techs, order, lat, lon) ==
    IF Len(order) = 0 THEN NoTech ELSE order[1]

\* find_nearest_technician(db, service_category, lat, lon) when the query
\* returns its rows in the order `order`; NoTech is Python's None
find_nearest_technician(techs, order, lat, lon) ==
    IF Len(order) = 0 THEN NoTech
    ELSE ScanNearest(techs, order, 1, lat, lon, NoTech, 0)

\* `latitude or 28.6139`: None and 0.0 are both falsy
OrDefault(c, d) == IF c = None \/ c = 0 THEN d ELSE c

Request(op, b, lat, lon, ts, code) ==
    [op |-> op, booking_id |-> b, latitude |-> lat, longitude |-> lon,
     ts |-> ts, code |-> code]

\* POST /api/bookings/create
create_booking(b, service_category, latitude, longitude, order) ==
    /\ bookings[b] = NoRow
    /\ order \in Orders(Candidates(technicians, service_category))
    /\ LET booking == [exists |-> TRUE,
                       service_category |-> service_category,
                       technician_id |-> NoTech,
                       latitude |-> OrDefault(latitude, DefaultLat),
                       longitude |-> OrDefault(longitude, DefaultLon),
                       status |-> "confirmed"]
           raises == \E i \in 1..Len(order) :
                         RaisesValueError(
                             technicians[order[i]].current_latitude, latitude)
           technician == IF raises THEN NoTech
                         ELSE find_nearest_technician(technicians, order,
                                                      latitude, longitude)
       IN  IF technician # NoTech
           THEN /\ bookings' = [bookings EXCEPT ![b] =
                       [booking EXCEPT !.technician_id = technician,
                                       !.status = "technician_assigned"]]
                /\ tracking' = [tracking EXCEPT ![b] =
                       [exists |-> TRUE,
                        technician_id |-> technician,
                        current_latitude |->
                            technicians[technician].current_latitude,
                        current_longitude |->
                            technicians[technician].current_longitude,
                        customer_latitude |-> latitude,
                        customer_longitude |-> longitude,
                        status |-> "assigned",
                        last_updated |-> now]]
                /\ last' = Request("create_booking", b, latitude, longitude,
                                   now, 200)
           ELSE /\ bookings' = [bookings EXCEPT ![b] = booking]
                /\ tracking' = tracking
                /\ last' = Request("create_booking", b, latitude, longitude,
                                   now, IF raises THEN 500 ELSE 200)
    /\ UNCHANGED <<technicians, now>>
    /\ UNCHANGED hubVars

(* ------------------------- app.py: tracking ---------------------------- *)
\* a status rule that lets a far report undo an arrival
StatusAfterReport_NotSticky(status, distance) ==
    IF distance < ArrivedMetres THEN "arrived" ELSE "en_route"

\* lines 393-398: the status after a report at `distance` metres
StatusAfterReport(status, distance) ==
    IF distance < ArrivedMetres THEN "arrived"
    ELSE IF status # "arrived" THEN "en_route"
    ELSE status

\* a handler that commits the position and the timestamp of a report and
\* leaves the status for later
update_technician_location_Torn(technician_id, b, latitude, longitude, ts) ==
    /\ ts \in 0..now
    /\ IF ~bookings[b].exists
       THEN /\ last' = Request("update_location", b, latitude, longitude,
                               ts, 404)
            /\ UNCHANGED <<bookings, tracking>>
       ELSE IF ~tracking[b].exists
       THEN /\ last' = Request("update_location", b, latitude, longitude,
                               ts, 200)
            /\ UNCHANGED <<bookings, tracking>>
       ELSE /\ tracking' = [tracking EXCEPT ![b] =
                    [@ EXCEPT !.current_latitude = latitude,
                              !.current_longitude = longitude,
                              !.last_updated = now]]
            /\ last' = Request("update_location", b, latitude, longitude,
                               ts, 200)
            /\ UNCHANGED bookings
    /\ UNCHANGED <<technicians, now>>
    /\ UNCHANGED hubVars

\* POST /api/technician/update-location.  ts is the time the report was
\* taken on the technician's device; the handler has no parameter for it.
update_technician_location(technician_id, b, latitude, longitude, ts) ==
    /\ ts \in 0..now
    /\ IF ~bookings[b].exists
       THEN /\ last' = Request("update_location", b, latitude, longitude,
                               ts, 404)
            /\ UNCHANGED <<bookings, tracking>>
       ELSE IF ~tracking[b].exists
       THEN /\ last' = Request("update_location", b, latitude, longitude,
                               ts, 200)
            /\ UNCHANGED <<bookings, tracking>>
       ELSE IF RaisesValueError(latitude, tracking[b].customer_latitude)
       THEN \* calculate_distance raises before db.commit(): the request
            \* fails and its session is dropped with nothing written
            /\ last' = Request("update_location", b, latitude, longitude,
                               ts, 500)
            /\ UNCHANGED <<bookings, tracking>>
       ELSE LET distance == calculate_distance(latitude, longitude,
                                tracking[b].customer_latitude,
                                tracking[b].customer_longitude)
                status == StatusAfterReport(tracking[b].status, distance)
            IN  /\ tracking' = [tracking EXCEPT ![b] =
                        [@ EXCEPT !.current_latitude = latitude,
                                  !.current_longitude = longitude,
                                  !.last_updated = now,
                                  !.status = status]]
                /\ bookings' = [bookings EXCEPT ![b].status =
                        IF distance < ArrivedMetres
                           \/ tracking[b].status # "arrived"
                        THEN status ELSE @]
                /\ last' = Request("update_location", b, latitude, longitude,
                                   ts, 200)
    /\ UNCHANGED <<technicians, now>>
    /\ UNCHANGED hubVars

\* the "tracking" dict of get_tracking_info, lines 346-355, without the
\* technician's profile and the timeline
TrackingInfo(tr) ==
    LET distance == calculate_distance(tr.current_latitude,
                                       tr.current_longitude,
                                       tr.customer_latitude,
                                       tr.customer_longitude)
    IN  [currentLatitude |-> tr.current_latitude,
         currentLongitude |-> tr.current_longitude,
         distance |-> Round2(distance),
         eta |-> get_eta(distance),
         status |-> tr.status]

\* the response of get_tracking_info as kept in `last`
Response(b, code, success, info) ==
    [op |-> "get_tracking_info", booking_id |-> b, latitude |-> None,
     longitude |-> None, ts |-> now, code |-> code, success |-> success,
     tracking |-> info]

\* GET /api/tracking/{booking_id}
get_tracking_info(b) ==
    /\ IF ~bookings[b].exists
       THEN last' = Response(b, 404, FALSE, NoRow)
       ELSE IF ~tracking[b].exists \/ bookings[b].technician_id = NoTech
       THEN last' = Response(b, 200, FALSE, NoRow)
       ELSE IF RaisesValueError(tracking[b].current_latitude,
                                tracking[b].customer_latitude)
       THEN last' = Response(b, 500, FALSE, NoRow)
       ELSE last' = Response(b, 200, TRUE, TrackingInfo(tracking[b]))
    /\ UNCHANGED <<dbVars, now>>
    /\ UNCHANGED hubVars

\* the external completion / cancellation event of the owning booking
ExternalEvent(b, status) ==
    /\ tracking[b].exists
    /\ tracking[b].status \notin TerminalStatuses
    /\ status \in TerminalStatuses
    /\ tracking' = [tracking EXCEPT ![b].status = status]
    /\ bookings' = [bookings EXCEPT ![b].status = status]
    /\ last' = Request(status, b, None, None, now, 200)
    /\ UNCHANGED <<technicians, now>>
    /\ UNCHANGED hubVars

\* time passes: datetime.now() advances
ClockTick ==
    /\ now < MaxTime
    /\ now' = now + 1
    /\ UNCHANGED <<dbVars, last>>
    /\ UNCHANGED hubVars

(* ------------------------- app.py: push channel ------------------------ *)
\* the dict sent by websocket_tracking, lines 303-310
Snapshot(tr) ==
    LET distance == calculate_distance(tr.current_latitude,
                                       tr.current_longitude,
                                       tr.customer_latitude,
                                       tr.customer_longitude)
    IN  [latitude |-> tr.current_latitude,
         longitude |-> tr.current_longitude,
         distance |-> Round2(distance),
         eta |-> get_eta(distance),
         status |-> tr.status,
         lastUpdated |-> tr.last_updated]

\* ConnectionManager.connect: the dict holds one websocket per booking_id
connect(conns, websocket, booking_id) ==
    [conns EXCEPT ![booking_id] = websocket]

\* ConnectionManager.disconnect: deletes the entry of the booking_id
disconnect(conns, booking_id) ==
    [conns EXCEPT ![booking_id] = NoSocket]

\* one pass of the while loop, lines 286-312, run by the handler of w for
\* booking b up to its next await: with a tracking row and a registered
\* websocket it is left awaiting send_json inside manager.send_update,
\* otherwise asleep; a ValueError of calculate_distance ends the handler
StartIteration(w, b, conns) ==
    IF ~tracking[b].exists
    THEN /\ pc' = [pc EXCEPT ![w] = "loop"]
         /\ UNCHANGED sending
    ELSE IF RaisesValueError(tracking[b].current_latitude,
                             tracking[b].customer_latitude)
    THEN /\ pc' = [pc EXCEPT ![w] = "done"]
         /\ UNCHANGED sending
    ELSE IF conns[b] = NoSocket
    THEN /\ pc' = [pc EXCEPT ![w] = "loop"]
         /\ UNCHANGED sending
    ELSE /\ Len(received[conns[b]]) < MaxRecv
         /\ sending' = [sending EXCEPT ![w] =
                 [active |-> TRUE, target |-> conns[b],
                  data |-> Snapshot(tracking[b])]]
         /\ pc' = [pc EXCEPT ![w] = "sending"]

\* websocket_tracking, lines 277-312, from the return of websocket.accept()
\* to the next await: register, look the booking up; an unknown booking
\* closes the socket and returns, a known one enters the loop
Subscribe(w, b) ==
    /\ pc[w] = "idle"
    /\ wsBooking' = [wsBooking EXCEPT ![w] = b]
    /\ active_connections' = connect(active_connections, w, b)
    /\ IF bookings[b].exists
       THEN /\ sock' = [sock EXCEPT ![w] = "open"]
            /\ StartIteration(w, b, connect(active_connections, w, b))
       ELSE /\ sock' = [sock EXCEPT ![w] = "closed"]
            /\ pc' = [pc EXCEPT ![w] = "done"]
            /\ UNCHANGED sending
    /\ UNCHANGED <<dbVars, now, last, received>>

\* the handler wakes from asyncio.sleep(5) and runs the loop once more
LoopIteration(w) ==
    /\ pc[w] = "loop"
    /\ StartIteration(w, wsBooking[w], active_connections)
    /\ UNCHANGED <<dbVars, now, last, active_connections, wsBooking, sock,
                   received>>

\* send_json returns or raises, lines 51-54; then asyncio.sleep(5)
SendReturns(w) ==
    /\ pc[w] = "sending"
    /\ LET target == sending[w].target
       IN  IF sock[target] = "open"
           THEN /\ received' = [received EXCEPT ![target] =
                        Append(@, sending[w].data)]
                /\ UNCHANGED active_connections
           ELSE /\ active_connections' =
                        disconnect(active_connections, wsBooking[w])
                /\ UNCHANGED received
    /\ sending' = [sending EXCEPT ![w] = NoSend]
    /\ pc' = [pc EXCEPT ![w] = "loop"]
    /\ UNCHANGED <<dbVars, now, last, wsBooking, sock>>

\* the client of a websocket goes away
ClientDisconnects(w) ==
    /\ sock[w] = "open"
    /\ sock' = [sock EXCEPT ![w] = "closed"]
    /\ UNCHANGED <<dbVars, now, last, active_connections, pc, wsBooking,
                   sending, received>>

(* --------------------------- specification ----------------------------- *)
CreateBookingFrom(categories, coords) ==
    \E b \in BookingIds, c \in categories, p \in coords :
        \E order \in Orders(Candidates(technicians, c)) :
            create_booking(b, c, p[1], p[2], order)

UpdateLocationFrom(coords) ==
    \E t \in TechIds, b \in BookingIds, p \in coords, ts \in 0..MaxTime :
        update_technician_location(t, b, p[1], p[2], ts)

CreateBookingStep == CreateBookingFrom(Categories, CustomerCoords)

UpdateLocationStep == UpdateLocationFrom(ReportCoords)

ExternalEventStep ==
    \E b \in BookingIds, s \in TerminalStatuses : ExternalEvent(b, s)

SubscribeStep == \E w \in WebSockets, b \in BookingIds : Subscribe(w, b)

LoopIterationStep == \E w \in WebSockets : LoopIteration(w)

SendReturnsStep == \E w \in WebSockets : SendReturns(w)

ClientDisconnectsStep == \E w \in WebSockets : ClientDisconnects(w)

\* bookings, dispatch and the tracking sessions
Next ==
    \/ CreateBookingStep
    \/ UpdateLocationStep
    \/ ExternalEventStep
    \/ ClockTick

Spec == Init /\ [][Next]_vars

\* the push channel over sessions that are created and ended
NextPush ==
    \/ CreateBookingFrom(Categories, {<<DefaultLat, DefaultLon>>})
    \/ ExternalEventStep
    \/ SubscribeStep
    \/ LoopIterationStep
    \/ SendReturnsStep
    \/ ClientDisconnectsStep

SpecPush == Init /\ [][NextPush]_vars

(* ------------------------ properties: tracking ------------------------- *)
\* the step handles a location report for booking b
ReportHandled(b) ==
    /\ last'.op = "update_location"
    /\ last'.booking_id = b
    /\ (last' # last \/ tracking' # tracking \/ bookings' # bookings)

StatusRank(s) ==
    CASE s = "assigned" -> 0
      [] s = "en_route" -> 1
      [] s = "arrived" -> 2
      [] OTHER -> 3

\* the transitions of the tracking status the lifecycle permits
ForwardOnly(s, t) ==
    \/ s = t
    \/ /\ s \notin TerminalStatuses
       /\ (t = "cancelled" \/ StatusRank(t) > StatusRank(s))

\* C1: under any sequence of location reports and completion/cancellation
\* events the status of a session only moves forward along
\* assigned -> en_route -> arrived -> completed, cancelled being reachable
\* only from a non-terminal status; no step moves it backward.
C1_StatusMonotonic ==
    [][\A b \in BookingIds :
          tracking[b].exists =>
              /\ tracking'[b].exists
              /\ ForwardOnly(tracking[b].status, tracking'[b].status)]_vars

\* the sessions that are not finished and have technician t assigned
ActiveSessionsOf(t) ==
    {b \in BookingIds : /\ tracking[b].exists
                        /\ tracking[b].technician_id = t
                        /\ tracking[b].status \notin TerminalStatuses}

\* C2: a technician is the assigned technician of at most one active
\* tracking session at a time.
C2_OneActiveAssignment ==
    \A t \in TechIds : Cardinality(ActiveSessionsOf(t)) <= 1

\* C3: a location report on a completed or cancelled session is rejected
\* and leaves the session's position, timestamp and status and the
\* booking's status unchanged.
C3_TerminalReportRejected ==
    [][\A b \in BookingIds :
          (/\ tracking[b].exists
           /\ tracking[b].status \in TerminalStatuses
           /\ ReportHandled(b))
          => /\ last'.code # 200
             /\ tracking'[b] = tracking[b]
             /\ bookings'[b] = bookings[b]]_vars

\* C4: once a session is arrived, a location report at 0.1 km or more
\* leaves it arrived, and no step takes it back to assigned or en_route:
\* only completion or cancellation ends the arrival.
C4_ArrivedIsSticky ==
    [][\A b \in BookingIds :
          (tracking[b].exists /\ tracking[b].status = "arrived")
          => /\ tracking'[b].exists
             /\ tracking'[b].status \in {"arrived"} \cup TerminalStatuses
             /\ ReportHandled(b) => tracking'[b].status = "arrived"]_vars

\* C4 witness: an arrived session whose last applied report was 3.3 km away
C4_Witness ==
    \E b \in BookingIds :
        /\ tracking[b].exists
        /\ tracking[b].status = "arrived"
        /\ last.op = "update_location"
        /\ last.booking_id = b
        /\ last.code = 200
        /\ tracking[b].current_latitude = last.latitude
        /\ calculate_distance(tracking[b].current_latitude,
                              tracking[b].current_longitude,
                              tracking[b].customer_latitude,
                              tracking[b].customer_longitude) >= 3000

\* C5: a location report taken earlier than the report applied to the
\* session just before it is discarded: it changes neither the position nor
\* the status.
C5_StaleReportDiscarded ==
    [][\A b \in BookingIds :
          (/\ tracking[b].exists
           /\ last.op = "update_location"
           /\ last.booking_id = b
           /\ last.code = 200
           /\ ReportHandled(b)
           /\ last'.ts < last.ts)
          => /\ tracking'[b] = tracking[b]
             /\ bookings'[b] = bookings[b]]_vars

\* C10: a location report for a booking id without a tracking session fails
\* as not found and changes no state, whether the booking id is unknown or
\* the booking never got a tracking record.
C10_NoSessionNotFound ==
    [][\A b \in BookingIds :
          (~tracking[b].exists /\ ReportHandled(b))
          => /\ last'.code = 404
             /\ tracking' = tracking
             /\ bookings' = bookings]_vars

(* ---------------------- properties: push channel ----------------------- *)
\* the websockets subscribed to booking b whose client is still there
Observers(b) ==
    {o \in WebSockets : /\ pc[o] \in {"loop", "sending"}
                        /\ wsBooking[o] = b
                        /\ sock[o] = "open"}

\* handler w finishes the delivery of a snapshot in this step
DeliveryEnds(w) == pc[w] = "sending" /\ pc'[w] = "loop"

\* handler w starts the delivery of a snapshot in this step
DeliveryStarts(w) == pc[w] = "loop" /\ pc'[w] = "sending"

\* C6: every observer subscribed to a booking receives the snapshot of
\* each tick: what the push loop of an observer with an open websocket
\* computes reaches that observer, also after a later subscription to the
\* same booking.
C6_EveryObserverReceives ==
    [][\A w \in WebSockets :
          (DeliveryEnds(w) /\ w \in Observers(wsBooking[w]))
          => received'[w] = Append(received[w], sending[w].data)]_vars

TerminalSnapshots(w) ==
    {i \in DOMAIN received[w] : received[w][i].status \in TerminalStatuses}

\* C7: an observer of a terminal session receives exactly one terminal
\* snapshot, and its push loop has then stopped.
C7_OneTerminalSnapshot ==
    \A w \in WebSockets :
        /\ Cardinality(TerminalSnapshots(w)) <= 1
        /\ TerminalSnapshots(w) # {} => pc[w] = "done"

\* C8: an observer whose client disconnected is deregistered before the
\* next delivery starts, receives no snapshot afterwards, and its
\* deregistration removes no other observer.
C8_DisconnectDeregisters ==
    [][/\ \A w \in WebSockets :
            DeliveryStarts(w) => sock[sending'[w].target] = "open"
       /\ \A o \in WebSockets :
            sock[o] = "closed" => received'[o] = received[o]
       /\ \A b \in BookingIds :
            (active_connections[b] # NoSocket
             /\ sock[active_connections[b]] = "open")
            => active_connections'[b] # NoSocket]_vars

\* C9: when the delivery to an observer fails, that observer and no other
\* is removed from the registry, and every push loop goes on.
C9_FailureRemovesOnlyFailed ==
    [][\A w \in WebSockets :
          (DeliveryEnds(w) /\ sock[sending[w].target] # "open")
          => /\ \A b \in BookingIds :
                  active_connections'[b] =
                      IF active_connections[b] = sending[w].target
                      THEN NoSocket ELSE active_connections[b]
             /\ \A o \in WebSockets \ {w} : pc'[o] = pc[o]]_vars

(* ------------------------ properties: dispatch ------------------------- *)
\* technician positions of the dispatch tables: 2 km north, 5 km north,
\* 2 km south and 5 km south of the default location
TechCoords == {DefaultLat + 180, DefaultLat + 450, DefaultLat - 180,
               DefaultLat - 450}

TechRows ==
    [service_category : Categories,
     is_available : BOOLEAN,
     current_latitude : TechCoords,
     current_longitude : {DefaultLon},
     rating : {48, 49}]

\* every content of the technicians table over TechRows
DispatchTables == [TechIds -> TechRows]

InitDispatch ==
    /\ technicians \in DispatchTables
    /\ bookings = [b \in BookingIds |-> NoRow]
    /\ tracking = [b \in BookingIds |-> NoRow]
    /\ now = 0
    /\ last = NoRequest
    /\ active_connections = [b \in BookingIds |-> NoSocket]
    /\ pc = [w \in WebSockets |-> "idle"]
    /\ wsBooking = [w \in WebSockets |-> "B1"]
    /\ sock = [w \in WebSockets |-> "new"]
    /\ sending = [w \in WebSockets |-> NoSend]
    /\ received = [w \in WebSockets |-> <<>>]

NextDispatch == CreateBookingStep

\* create_booking over every technicians table
SpecDispatch == InitDispatch /\ [][NextDispatch]_vars

\* the step is create_booking for booking b
BookingCreated(b) ==
    /\ ~bookings[b].exists
    /\ bookings'[b].exists

\* the technicians that are available and of the category of booking row r
Qualified(r) ==
    {t \in TechIds : /\ technicians[t].is_available
                     /\ technicians[t].service_category = r.service_category}

\* metres between technician t and the position (lat, lon)
MetresTo(t, lat, lon) ==
    calculate_distance(technicians[t].current_latitude,
                       technicians[t].current_longitude, lat, lon)

\* C11: when no technician is both available and of the requested
\* category, create_booking claims nobody: no availability flag changes, the
\* booking gets no technician_id and no tracking row is created.
C11_NoCandidateClaimsNobody ==
    [][\A b \in BookingIds :
          (BookingCreated(b) /\ Qualified(bookings'[b]) = {})
          => /\ technicians' = technicians
             /\ bookings'[b].technician_id = NoTech
             /\ bookings'[b].status = "confirmed"
             /\ tracking' = tracking]_vars

\* C11 witness: a booking without technician and tracking row while a
\* technician of its category exists but is unavailable
C11_Witness ==
    \E b \in BookingIds :
        /\ bookings[b].exists
        /\ bookings[b].technician_id = NoTech
        /\ ~tracking[b].exists
        /\ Qualified(bookings[b]) = {}
        /\ \E t \in TechIds :
              /\ technicians[t].service_category = bookings[b].service_category
              /\ ~technicians[t].is_available

C12_WitnessUnavailableNearer ==
    \E b \in BookingIds, u \in TechIds :
        /\ tracking[b].exists
        /\ last.op = "create_booking" /\ last.booking_id = b
        /\ last.latitude # None
        /\ ~technicians[u].is_available
        /\ MetresTo(u, last.latitude, last.longitude)
               < MetresTo(tracking[b].technician_id, last.latitude,
                          last.longitude)

\* technician t comes before u in the tie-break: higher rating first, then
\* lower id
BeatsInTie(t, u) ==
    \/ technicians[t].rating > technicians[u].rating
    \/ /\ technicians[t].rating = technicians[u].rating
       /\ t <= u

\* C13: among several available technicians of the category at the same
\* minimum distance the one with the higher rating is assigned, and among
\* equal ratings the one with the lower id.
C13_TieBreakByRatingThenId ==
    [][\A b \in BookingIds :
          (BookingCreated(b) /\ last'.latitude # None
           /\ bookings'[b].technician_id # NoTech)
          => LET r == bookings'[b]
                 t == r.technician_id
             IN  \A u \in Qualified(r) :
                     MetresTo(u, last'.latitude, last'.longitude)
                     = MetresTo(t, last'.latitude, last'.longitude)
                     => BeatsInTie(t, u)]_vars

\* C14: for a request without a position the default location is the
\* requester position of the whole dispatch: the technician assigned is at
\* the minimum distance from the default location among the available
\* technicians of the category, and the tracking row created holds the
\* default location as the customer position.
C14_DefaultPositionEverywhere ==
    [][\A b \in BookingIds :
          (BookingCreated(b) /\ last'.latitude = None
           /\ bookings'[b].technician_id # NoTech)
          => LET r == bookings'[b]
                 t == r.technician_id
             IN  /\ r.latitude = DefaultLat
                 /\ r.longitude = DefaultLon
                 /\ tracking'[b].customer_latitude = DefaultLat
                 /\ tracking'[b].customer_longitude = DefaultLon
                 /\ \A u \in Qualified(r) :
                       MetresTo(t, DefaultLat, DefaultLon)
                       <= MetresTo(u, DefaultLat, DefaultLon)]_vars

\* C14, the selection alone: the technician assigned to a request without
\* a position is the nearest to the default location
C14_SelectionMeasuresToDefault ==
    [][\A b \in BookingIds :
          (BookingCreated(b) /\ last'.latitude = None
           /\ bookings'[b].technician_id # NoTech)
          => \A u \in Qualified(bookings'[b]) :
                 MetresTo(bookings'[b].technician_id, DefaultLat, DefaultLon)
                 <= MetresTo(u, DefaultLat, DefaultLon)]_vars

(* ---------------------- properties: invalid reports -------------------- *)
\* reports with a coordinate out of range: latitude 91 degrees, longitude
\* 200 degrees
InvalidCoords == {<<MaxLat + 10000, DefaultLon>>,
                  <<DefaultLat + 5, MaxLon + 200000>>}

NextReport ==
    \/ CreateBookingFrom({"plumber"}, {<<DefaultLat, DefaultLon>>})
    \/ UpdateLocationFrom(ReportCoords \cup InvalidCoords)
    \/ ClockTick

\* location reports, valid and invalid, on assigned bookings
SpecReport == Init /\ [][NextReport]_vars

InvalidCoordinate(lat, lon) == Abs(lat) > MaxLat \/ Abs(lon) > MaxLon

\* C15: a location report with a latitude outside [-90, 90] or a longitude
\* outside [-180, 180] on a session is rejected and changes nothing: the
\* tracking row (position, last_updated, status) and the booking's status
\* are the same after the call as before it.
C15_InvalidCoordinateRejected ==
    [][\A b \in BookingIds :
          (/\ tracking[b].exists
           /\ ReportHandled(b)
           /\ InvalidCoordinate(last'.latitude, last'.longitude))
          => /\ last'.code # 200
             /\ tracking' = tracking
             /\ bookings' = bookings]_vars

(* ------------------------ properties: snapshots ------------------------ *)
\* the booking whose session is reported on and observed
SnapBooking == "B1"

SnapCreateStep ==
    \E order \in Orders(Candidates(technicians, "plumber")) :
        create_booking(SnapBooking, "plumber", DefaultLat, DefaultLon, order)

SnapReportStep ==
    \E p \in ReportCoords :
        update_technician_location(1, SnapBooking, p[1], p[2], now)

\* the observer of the session
SnapSocket == "ws1"

SnapSubscribeStep == Subscribe(SnapSocket, SnapBooking)

GetTrackingInfoStep == get_tracking_info(SnapBooking)

NextSnap ==
    \/ SnapCreateStep
    \/ SnapReportStep
    \/ ClockTick
    \/ SnapSubscribeStep
    \/ LoopIterationStep
    \/ SendReturnsStep
    \/ GetTrackingInfoStep

\* one session: its reports, its push loops and get_tracking_info
SpecSnap == Init /\ [][NextSnap]_vars

\* the status a report at `metres` from the customer leaves behind
StatusOfAppliedReport(before, metres) ==
    CASE metres < ArrivedMetres -> "arrived"
      [] metres >= ArrivedMetres /\ before = "arrived" -> "arrived"
      [] OTHER -> "en_route"

\* the step applies a report to the session of b: all of it
ReportAppliedFully(b) ==
    LET metres == calculate_distance(last'.latitude, last'.longitude,
                                     tracking[b].customer_latitude,
                                     tracking[b].customer_longitude)
    IN  /\ tracking'[b].current_latitude = last'.latitude
        /\ tracking'[b].current_longitude = last'.longitude
        /\ tracking'[b].last_updated = now
        /\ tracking'[b].status =
               StatusOfAppliedReport(tracking[b].status, metres)

\* handler w computes a snapshot and starts sending it in this step
SnapshotEmitted(w) == pc[w] # "sending" /\ pc'[w] = "sending"

\* get_tracking_info returns a snapshot in this step
InfoReturned ==
    /\ last'.op = "get_tracking_info"
    /\ last' # last
    /\ last'.success

\* position, status and timestamp as they can stand together in the session
\* of b: "assigned" only at the technician's position at assignment and
\* "en_route" only ArrivedMetres or more from the customer (distance in
\* units of 10 m)
StandTogether(b, latitude, longitude, distance, status) ==
    /\ status = "assigned" =>
          /\ bookings[b].technician_id # NoTech
          /\ latitude =
                 technicians[bookings[b].technician_id].current_latitude
          /\ longitude =
                 technicians[bookings[b].technician_id].current_longitude
    /\ status = "en_route" => distance * 10 >= ArrivedMetres

\* C16: a report is applied to a session in full (position, timestamp and
\* status in one step), a snapshot is computed from the session as one
\* step left it, without a report being applied in between, and every
\* snapshot delivered by the push loop or returned by get_tracking_info
\* shows a position together with the status that belongs to it.
C16_SnapshotOfOneAppliedReport ==
    [][/\ \A b \in BookingIds :
             (tracking[b].exists /\ ReportHandled(b)
              /\ tracking'[b] # tracking[b])
             => ReportAppliedFully(b)
       /\ \A w \in WebSockets :
             SnapshotEmitted(w) =>
                 LET tr == tracking[wsBooking'[w]]
                     s == sending'[w].data
                 IN  /\ tracking' = tracking
                     /\ s.latitude = tr.current_latitude
                     /\ s.longitude = tr.current_longitude
                     /\ s.status = tr.status
                     /\ s.lastUpdated = tr.last_updated
       /\ InfoReturned =>
             LET tr == tracking[last'.booking_id]
                 s == last'.tracking
             IN  /\ tracking' = tracking
                 /\ s.currentLatitude = tr.current_latitude
                 /\ s.currentLongitude = tr.current_longitude
                 /\ s.status = tr.status
                 /\ StandTogether(last'.booking_id, s.currentLatitude,
                                  s.currentLongitude, s.distance, s.status)
       /\ \A w \in WebSockets :
             \A i \in DOMAIN received'[w] :
                 LET s == received'[w][i]
                 IN  /\ StandTogether(wsBooking'[w], s.latitude, s.longitude,
                                      s.distance, s.status)
                     /\ s.lastUpdated <= now']_vars

\* C16 witness: a report was applied while a snapshot computed before it
\* was being sent, the snapshot was delivered as computed, and a snapshot
\* of the later report followed it
C16_Witness ==
    \E w \in WebSockets :
        /\ Len(received[w]) >= 2
        /\ received[w][1].status = "en_route"
        /\ received[w][1].lastUpdated = 0
        /\ received[w][2].status = "arrived"
        /\ received[w][2].lastUpdated >= 1
        /\ received[w][2].latitude # received[w][1].latitude

(* --------------------------- properties: eta --------------------------- *)
\* distances are tried in steps of a quarter kilometre
MaxEtaSteps == 248

EtaDistances == {250 * k : k \in 0..MaxEtaSteps}

\* two distances for which an estimate is asked
InitEta ==
    /\ technicians \in TechnicianTables
    /\ bookings = [b \in BookingIds |-> NoRow]
    /\ tracking = [b \in BookingIds |-> NoRow]
    /\ now = 0
    /\ last \in [op : {"distances"}, d1 : EtaDistances, d2 : EtaDistances]
    /\ active_connections = [b \in BookingIds |-> NoSocket]
    /\ pc = [w \in WebSockets |-> "idle"]
    /\ wsBooking = [w \in WebSockets |-> "B1"]
    /\ sock = [w \in WebSockets |-> "new"]
    /\ sending = [w \in WebSockets |-> NoSend]
    /\ received = [w \in WebSockets |-> <<>>]

\* get_eta is called for both
GetEta ==
    /\ last.op = "distances"
    /\ last' = [op |-> "get_eta", d1 |-> last.d1, d2 |-> last.d2,
                eta1 |-> get_eta(last.d1), eta2 |-> get_eta(last.d2)]
    /\ UNCHANGED <<dbVars, now>>
    /\ UNCHANGED hubVars

NextEta == GetEta

SpecEta == InitEta /\ [][NextEta]_vars

\* whole minutes needed for `metres` at 30 km/h
WholeMinutes(metres) == (metres * 60) \div 30000

\* C17 as stated: get_eta is non-decreasing in the distance, never below 5
\* minutes, and above the floor it equals the whole minutes needed at
\* 30 km/h.
C17_EtaExactAboveFloor ==
    last.op = "get_eta" =>
        /\ (last.d1 <= last.d2 => last.eta1 <= last.eta2)
        /\ last.eta1 >= 5
        /\ (WholeMinutes(last.d1) > 5 => last.eta1 = WholeMinutes(last.d1))

\* C17 amended: get_eta is non-decreasing in the distance, never below 5
\* minutes, and above the floor it is the whole minutes needed at 30 km/h
\* or differs from them by one minute.
C17_EtaMonotoneFlooredWithinAMinute ==
    last.op = "get_eta" =>
        /\ (last.d1 <= last.d2 => last.eta1 <= last.eta2)
        /\ last.eta1 >= 5
        /\ (WholeMinutes(last.d1) > 5 =>
               /\ last.eta1 >= WholeMinutes(last.d1) - 1
               /\ last.eta1 <= WholeMinutes(last.d1) + 1)

\* C17 witness: 61.5 km gives 122 minutes, one less than the whole minutes
\* needed, and 61.75 km gives 123
C17_Witness ==
    /\ last.op = "get_eta"
    /\ last.d1 = 61500 /\ last.eta1 = 122
    /\ last.d2 = 61750 /\ last.eta2 = 123

(* ------------------------ properties: registry ------------------------- *)
\* C18: after a websocket_tracking handler has ended, active_connections
\* holds no entry for the websocket it registered.
C18_NoStaleRegistration ==
    \A w \in WebSockets :
        pc[w] = "done" =>
            \A b \in BookingIds : active_connections[b] # w

====
